---- MODULE Spec2Model ----
(***************************************************************************)
(* Model of the VL6180X driver (adafruit_vl6180x.py).                      *)
(*                                                                         *)
(* The driver is a single-threaded sequence of I2C register transactions.  *)
(* One step of the model is one bus transaction (or one branch / call of   *)
(* the Python code between two transactions).  The sensor is a register    *)
(* file: configuration registers store the last byte written to them, the  *)
(* result registers (status, interrupt status, range value, history) are   *)
(* driven by the sensor and every read of them draws a byte from a small   *)
(* set.  Every bus transaction can fail with a transport error (OSError),  *)
(* which propagates to the caller of the public operation.                 *)
(***************************************************************************)
EXTENDS Integers, Sequences, FiniteSets, TLC

(***************************************************************************)
(* Register addresses and constants of the source (decimal; hex in the     *)
(* comment).                                                               *)
(***************************************************************************)
_VL6180X_REG_IDENTIFICATION_MODEL_ID == 0                \* 0x000
_VL6180X_REG_SYSTEM_HISTORY_CTRL == 18                   \* 0x012
_VL6180X_REG_SYSTEM_INTERRUPT_CONFIG == 20               \* 0x014
_VL6180X_REG_SYSTEM_INTERRUPT_CLEAR == 21                \* 0x015
_VL6180X_REG_SYSTEM_FRESH_OUT_OF_RESET == 22             \* 0x016
_VL6180X_REG_SYSRANGE_START == 24                        \* 0x018
_VL6180X_REG_SYSRANGE_INTERMEASUREMENT_PERIOD == 27      \* 0x01B
_VL6180X_REG_SYSRANGE_PART_TO_PART_RANGE_OFFSET == 36    \* 0x024
_VL6180X_REG_SYSALS_START == 56                          \* 0x038
_VL6180X_REG_SYSALS_ANALOGUE_GAIN == 63                  \* 0x03F
_VL6180X_REG_SYSALS_INTEGRATION_PERIOD_HI == 64          \* 0x040
_VL6180X_REG_SYSALS_INTEGRATION_PERIOD_LO == 65          \* 0x041
_VL6180X_REG_RESULT_RANGE_STATUS == 77                   \* 0x04D
_VL6180X_REG_RESULT_INTERRUPT_STATUS_GPIO == 79          \* 0x04F
_VL6180X_REG_RESULT_ALS_VAL == 80                        \* 0x050
_VL6180X_REG_RESULT_HISTORY_BUFFER_0 == 82               \* 0x052
_VL6180X_REG_RESULT_RANGE_VAL == 98                      \* 0x062

\* The gain codes of the ambient light sensor.
ALS_GAIN_1 == 6
ALS_GAIN_1_25 == 5
ALS_GAIN_1_67 == 4
ALS_GAIN_2_5 == 3
ALS_GAIN_5 == 2
ALS_GAIN_10 == 1
ALS_GAIN_20 == 0
ALS_GAIN_40 == 7

\* The model identification the constructor expects (0xB4).
MODEL_ID_VL6180X == 180

(***************************************************************************)
(* Bounds of the model.                                                    *)
(***************************************************************************)
\* Largest number of "not ready" answers one polling loop receives.
MaxPoll == 1
\* Largest number of bus transfers of another user recorded in one log.
MaxOther == 2

\* Periods passed to start_range_continuous: both bounds, their neighbours,
\* and two periods of the same 10 ms bucket.
Periods == {19, 20, 150, 157, 2550, 2551}
\* Offsets passed to the constructor and to the offset setter.
CtorOffsets == {0, -128, 128}
Offsets == {-129, -128, -1, 127, 128}
\* Model identifications the sensor at the address may report.
ModelIds == {MODEL_ID_VL6180X, 181}
\* Bytes the sensor-driven result registers may return.
RangeStatusVals == {0, 1}
InterruptStatusVals == {0, 4}
RangeVals == {0, 57}
\* Gains passed to read_lux: every code, values above the largest code, and
\* a negative one.
Gains == {-1} \cup (0..8) \cup {255}
\* Interrupt-status bytes during a light measurement: nothing (0x00), new
\* sample ready (0x20: field 4 at bits 3..5), another event of the field
\* (0x28: field 5, which shares bit 5 with 4).
AlsStatusVals == {0, 32, 40}
\* The two bytes of the light count, high byte first: 0, 1000, 65535.
AlsBytes == { <<0, 0>>, <<3, 232>>, <<255, 255>> }
\* Calls of the four register primitives: <<name, address, data>>.
PrimitiveCalls ==
    { <<"_write_8", 24, 3>>, <<"_write_8", 428, 62>>,
      <<"_write_16", 64, 100>>, <<"_write_16", 319, 4660>>,
      <<"_read_8", 0, 0>>, <<"_read_8", 77, 0>>,
      <<"_read_16", 80, 0>> }

Byte == 0..255

(***************************************************************************)
(* Bitwise AND of two naturals (Python's & on non-negative ints).          *)
(***************************************************************************)
RECURSIVE BitAnd(_, _)
BitAnd(a, b) ==
    IF a = 0 \/ b = 0 THEN 0
    ELSE (a % 2) * (b % 2) + 2 * BitAnd(a \div 2, b \div 2)

\* Python's a | b for a >= 0 and any int b (two's complement for b < 0).
BitOr(a, b) ==
    IF b < 0 THEN -((-b - 1) - BitAnd(-b - 1, a)) - 1
    ELSE a + b - BitAnd(a, b)

\* Python's bool is an int: True is 1, False is 0.
BoolInt(b) == IF b THEN 1 ELSE 0

(***************************************************************************)
(* _load_settings: the table of register writes, in source order.          *)
(***************************************************************************)
_load_settings == <<
    <<519, 1>>, <<520, 1>>, <<150, 0>>, <<151, 253>>, <<227, 0>>,
    <<228, 4>>, <<229, 2>>, <<230, 1>>, <<231, 3>>, <<245, 2>>,
    <<217, 5>>, <<219, 206>>, <<220, 3>>, <<221, 248>>, <<159, 0>>,
    <<163, 60>>, <<183, 0>>, <<187, 60>>, <<178, 9>>, <<202, 9>>,
    <<408, 1>>, <<432, 23>>, <<429, 0>>, <<255, 5>>, <<256, 5>>,
    <<409, 5>>, <<422, 27>>, <<428, 62>>, <<423, 31>>, <<48, 0>>,
    <<17, 16>>, <<266, 48>>, <<63, 70>>, <<49, 255>>, <<64, 99>>,
    <<46, 1>>, <<27, 9>>, <<62, 49>>, <<20, 36>> >>

\* Registers that store what is written to them.
StoredRegs ==
    { _load_settings[k][1] : k \in 1..Len(_load_settings) } \cup
    { _VL6180X_REG_IDENTIFICATION_MODEL_ID,
      _VL6180X_REG_SYSTEM_HISTORY_CTRL,
      _VL6180X_REG_SYSTEM_INTERRUPT_CONFIG,
      _VL6180X_REG_SYSTEM_INTERRUPT_CLEAR,
      _VL6180X_REG_SYSTEM_FRESH_OUT_OF_RESET,
      _VL6180X_REG_SYSRANGE_START,
      _VL6180X_REG_SYSALS_START,
      _VL6180X_REG_SYSALS_INTEGRATION_PERIOD_LO,
      _VL6180X_REG_SYSRANGE_INTERMEASUREMENT_PERIOD,
      _VL6180X_REG_SYSRANGE_PART_TO_PART_RANGE_OFFSET }

(***************************************************************************)
(* State.                                                                  *)
(*   regs     the sensor's stored registers                                *)
(*   obj      TRUE once __init__ has returned a driver object              *)
(*   _offset  the driver's mirrored offset (self._offset)                  *)
(*   pc       the call stack of the running public operation: the head is  *)
(*            the next statement, the tail the callers' continuations;     *)
(*            <<>> when no operation runs                                  *)
(*   op, arg  the public operation running or last finished, its argument  *)
(*   log      the bus transactions (and sleeps) the operation has          *)
(*            completed, in order: <<"r", addr, byte>>, <<"w", addr,       *)
(*            byte>>, <<"sleep", 0, milliseconds>>; for a register         *)
(*            primitive called on its own, the transfers on the bus since  *)
(*            the call: <<"write", user, bytes>>, <<"readinto", user,      *)
(*            bytes>>                                                      *)
(*   rv       the value returned by the last call that returned            *)
(*   exc      the exception the operation ended with, "" if none           *)
(*   i        the index of the running loop (settings table)               *)
(*   polls    "not ready" answers received by the running polling loop     *)
(*   range_   the local range_ of _read_range_continuous                   *)
(*   reg      the local reg of read_lux                                    *)
(*   gain     the local gain of read_lux: the argument, then its clamp     *)
(*   lux      the local lux of read_lux: the raw count read                *)
(*   lock     the holder of the bus lock taken by "with self._device":     *)
(*            "free", "driver" or "other" (another user of the bus)        *)
(***************************************************************************)
VARIABLES regs, obj, _offset, pc, op, arg, log, rv, exc, i, polls, range_,
          reg, gain, lux, lock

vars == <<regs, obj, _offset, pc, op, arg, log, rv, exc, i, polls, range_,
          reg, gain, lux, lock>>

\* The state that only read_lux and the register primitives' lock use.
aux == <<reg, gain, lux, lock>>

\* Python values a call returns.
RvNone == [k |-> "None", v |-> 0]
RvInt(n) == [k |-> "int", v |-> n]
RvBool(b) == [k |-> "bool", v |-> BoolInt(b)]

Init ==
    /\ \E id \in ModelIds, rs \in Byte :
          regs = [a \in StoredRegs |->
                    IF a = _VL6180X_REG_IDENTIFICATION_MODEL_ID THEN id
                    ELSE IF a = _VL6180X_REG_SYSRANGE_START THEN rs
                    ELSE 0]
    /\ obj = FALSE
    /\ _offset = 0
    /\ pc = <<>>
    /\ op = ""
    /\ arg = 0
    /\ log = <<>>
    /\ rv = RvNone
    /\ exc = ""
    /\ i = 0
    /\ polls = 0
    /\ range_ = 0
    /\ reg = 0
    /\ gain = 0
    /\ lux = 0
    /\ lock = "free"

(***************************************************************************)
(* Register primitives.  A transaction either completes or raises the      *)
(* transport error; the exception unwinds the whole call stack.            *)
(***************************************************************************)
Raise(e) ==
    /\ pc' = <<>>
    /\ exc' = e
    /\ i' = 0
    /\ polls' = 0
    /\ range_' = 0
    /\ UNCHANGED <<regs, obj, _offset, op, arg, log, rv>>

\* _write_8(address, data) completes; l is the operation's log so far.
_write_8(l, address, data) ==
    /\ regs' = IF address \in StoredRegs
               THEN [regs EXCEPT ![address] = data] ELSE regs
    /\ log' = Append(l, <<"w", address, data>>)

\* _read_8(address) completes and returns result.
_read_8(l, address, result) ==
    /\ log' = Append(l, <<"r", address, result>>)
    /\ regs' = regs

\* The bytes a read of a register may return.
ReadVals(address) ==
    IF address \in StoredRegs THEN {regs[address]}
    ELSE IF address = _VL6180X_REG_RESULT_RANGE_STATUS THEN RangeStatusVals
    ELSE IF address = _VL6180X_REG_RESULT_INTERRUPT_STATUS_GPIO
         THEN InterruptStatusVals
    ELSE RangeVals

At(l) == pc # <<>> /\ Head(pc) = l
Idle == pc = <<>>

(***************************************************************************)
(* __init__                                                                *)
(***************************************************************************)
\* The caller constructs the driver with an offset argument.
Construct(offset) ==
    /\ Idle /\ ~obj /\ op = ""
    /\ pc' = <<"init_model_id">>
    /\ op' = "__init__"
    /\ arg' = offset
    /\ log' = <<>>
    /\ UNCHANGED <<regs, obj, _offset, rv, exc, i, polls, range_>>

\* Variant: the model identification read but not compared.
InitModelIdUnchecked ==
    /\ At("init_model_id")
    /\ \/ Raise("OSError")
       \/ \E id \in ReadVals(_VL6180X_REG_IDENTIFICATION_MODEL_ID) :
            /\ _read_8(log, _VL6180X_REG_IDENTIFICATION_MODEL_ID, id)
            /\ pc' = <<"load_settings">>
            /\ i' = 1
            /\ UNCHANGED <<obj, _offset, op, arg, rv, exc, polls, range_>>

\* if self._read_8(MODEL_ID) != 0xB4: raise RuntimeError
InitModelId ==
    /\ At("init_model_id")
    /\ \/ Raise("OSError")
       \/ \E id \in ReadVals(_VL6180X_REG_IDENTIFICATION_MODEL_ID) :
            /\ _read_8(log, _VL6180X_REG_IDENTIFICATION_MODEL_ID, id)
            /\ IF id # MODEL_ID_VL6180X
               THEN /\ pc' = <<>>
                    /\ exc' = "RuntimeError"
                    /\ i' = i
               ELSE /\ pc' = <<"load_settings">>
                    /\ exc' = exc
                    /\ i' = 1
            /\ UNCHANGED <<obj, _offset, op, arg, rv, polls, range_>>

\* Variant: the last write of the table left out.
LoadSettingsShort ==
    /\ At("load_settings")
    /\ \/ Raise("OSError")
       \/ /\ _write_8(log, _load_settings[i][1], _load_settings[i][2])
          /\ IF i < Len(_load_settings) - 1
             THEN /\ i' = i + 1
                  /\ pc' = pc
             ELSE /\ i' = 0
                  /\ pc' = <<"init_fresh_out_of_reset">>
          /\ UNCHANGED <<obj, _offset, op, arg, rv, exc, polls, range_>>

\* self._load_settings(): one write of the table per step.
LoadSettings ==
    /\ At("load_settings")
    /\ \/ Raise("OSError")
       \/ /\ _write_8(log, _load_settings[i][1], _load_settings[i][2])
          /\ IF i < Len(_load_settings)
             THEN /\ i' = i + 1
                  /\ pc' = pc
             ELSE /\ i' = 0
                  /\ pc' = <<"init_fresh_out_of_reset">>
          /\ UNCHANGED <<obj, _offset, op, arg, rv, exc, polls, range_>>

\* self._write_8(FRESH_OUT_OF_RESET, 0x00); then self.offset = offset.
InitFreshOutOfReset ==
    /\ At("init_fresh_out_of_reset")
    /\ \/ Raise("OSError")
       \/ /\ _write_8(log, _VL6180X_REG_SYSTEM_FRESH_OUT_OF_RESET, 0)
          /\ pc' = <<"offset_setter", "continuous_mode_enabled",
                     "init_if_continuous">>
          /\ UNCHANGED <<obj, _offset, op, arg, rv, exc, i, polls, range_>>

(***************************************************************************)
(* offset (setter), called by __init__ and by the caller.                  *)
(***************************************************************************)
\* Variant: the sign bit dropped (offset & 0x7F).
struct_pack_7bit(offset) == offset % 128

\* struct.pack("b", offset)[0]: the byte of a signed char.
struct_pack_b(offset) == (offset + 256) % 256

\* Variant: the mirror assigned before the register write.
offset_setter_mirror_first ==
    /\ At("offset_setter")
    /\ IF arg \notin -128..127
       THEN Raise("struct.error")
       ELSE \/ /\ _offset' = arg
               /\ pc' = <<>>
               /\ exc' = "OSError"
               /\ i' = 0
               /\ polls' = 0
               /\ range_' = 0
               /\ UNCHANGED <<regs, obj, op, arg, log, rv>>
            \/ /\ _write_8(log,
                           _VL6180X_REG_SYSRANGE_PART_TO_PART_RANGE_OFFSET,
                           (arg + 256) % 256)
               /\ _offset' = arg
               /\ rv' = RvNone
               /\ pc' = Tail(pc)
               /\ UNCHANGED <<obj, op, arg, exc, i, polls, range_>>

\* self._write_8(OFFSET, struct.pack("b", offset)[0]); self._offset = offset
\* struct.pack raises for a value that is no signed char, before any write.
offset_setter ==
    /\ At("offset_setter")
    /\ IF arg \notin -128..127
       THEN Raise("struct.error")
       ELSE \/ Raise("OSError")
            \/ /\ _write_8(log,
                           _VL6180X_REG_SYSRANGE_PART_TO_PART_RANGE_OFFSET,
                           struct_pack_b(arg))
               /\ _offset' = arg
               /\ rv' = RvNone
               /\ pc' = Tail(pc)
               /\ UNCHANGED <<obj, op, arg, exc, i, polls, range_>>

(***************************************************************************)
(* continuous_mode_enabled, called by __init__, range,                     *)
(* stop_range_continuous and the caller.                                   *)
(***************************************************************************)
\* Variant: the test of bit 1, (v >> 1) & 0x1.
continuous_mode_enabled_bit1(v) == BitAnd(v \div 2, 1) = 1

\* self._read_8(SYSRANGE_START) > 1 & 0x1: & binds tighter than >.
continuous_mode_enabled(v) == v > BitAnd(1, 1)

\* The property reads the range-start register and returns the test.
ReadContinuousMode(l, v) ==
    /\ _read_8(l, _VL6180X_REG_SYSRANGE_START, v)
    /\ rv' = RvBool(continuous_mode_enabled(v))

ContinuousModeEnabled ==
    /\ At("continuous_mode_enabled")
    /\ \/ Raise("OSError")
       \/ \E v \in ReadVals(_VL6180X_REG_SYSRANGE_START) :
            /\ ReadContinuousMode(log, v)
            /\ pc' = Tail(pc)
            /\ UNCHANGED <<obj, _offset, op, arg, exc, i, polls, range_>>

(***************************************************************************)
(* __init__, continued.                                                    *)
(***************************************************************************)
\* Variant: the stop command not followed by the sleep.
InitIfContinuousNoSleep ==
    /\ At("init_if_continuous")
    /\ pc' = IF rv.v = 1
             THEN <<"continuous_mode_enabled", "stop_if_continuous",
                    "init_history_ctrl">>
             ELSE <<"init_history_ctrl">>
    /\ UNCHANGED <<regs, obj, _offset, op, arg, log, rv, exc, i, polls, range_>>

\* if self.continuous_mode_enabled: self.stop_range_continuous(); sleep
InitIfContinuous ==
    /\ At("init_if_continuous")
    /\ pc' = IF rv.v = 1
             THEN <<"continuous_mode_enabled", "stop_if_continuous",
                    "init_sleep">>
             ELSE <<"init_history_ctrl">>
    /\ UNCHANGED <<regs, obj, _offset, op, arg, log, rv, exc, i, polls, range_>>

\* time.sleep(0.1)
InitSleep ==
    /\ At("init_sleep")
    /\ log' = Append(log, <<"sleep", 0, 100>>)
    /\ pc' = <<"init_history_ctrl">>
    /\ UNCHANGED <<regs, obj, _offset, op, arg, rv, exc, i, polls, range_>>

\* self._write_8(HISTORY_CTRL, 0x01); the constructor returns the object.
InitHistoryCtrl ==
    /\ At("init_history_ctrl")
    /\ \/ Raise("OSError")
       \/ /\ _write_8(log, _VL6180X_REG_SYSTEM_HISTORY_CTRL, 1)
          /\ obj' = TRUE
          /\ rv' = RvNone
          /\ pc' = Tail(pc)
          /\ UNCHANGED <<_offset, op, arg, exc, i, polls, range_>>

(***************************************************************************)
(* Public operations on a constructed driver.  A call starts a fresh log.  *)
(***************************************************************************)
Call(name, a, stack) ==
    /\ Idle /\ obj
    /\ op' = name
    /\ arg' = a
    /\ pc' = stack
    /\ log' = <<>>
    /\ exc' = ""
    /\ UNCHANGED <<regs, obj, _offset, rv, i, polls, range_>>

\* sensor.continuous_mode_enabled
GetContinuousModeEnabled ==
    /\ Idle /\ obj
    /\ op' = "continuous_mode_enabled"
    /\ arg' = 0
    /\ pc' = <<>>
    /\ \/ /\ exc' = "OSError"
          /\ log' = <<>>
          /\ UNCHANGED <<regs, rv>>
       \/ \E v \in ReadVals(_VL6180X_REG_SYSRANGE_START) :
            /\ ReadContinuousMode(<<>>, v)
            /\ exc' = ""
    /\ UNCHANGED <<obj, _offset, i, polls, range_>>

\* sensor.offset
GetOffset ==
    /\ Idle /\ obj
    /\ op' = "offset"
    /\ arg' = 0
    /\ pc' = <<>>
    /\ log' = <<>>
    /\ exc' = ""
    /\ rv' = RvInt(_offset)
    /\ UNCHANGED <<regs, obj, _offset, i, polls, range_>>

\* sensor.offset = offset
SetOffset(offset) == Call("offset=", offset, <<"offset_setter">>)

(***************************************************************************)
(* start_range_continuous / stop_range_continuous                          *)
(***************************************************************************)
\* Variant: the period rounded to the nearest 10 ms instead of floored.
period_reg_rounded(period) == ((period + 5) \div 10) - 1

\* period_reg = (period // 10) - 1
period_reg(period) == (period \div 10) - 1

\* Variant: the bounds of the period check exclusive.
start_range_continuous_exclusive(period) ==
    IF ~(20 < period /\ period < 2550)
    THEN /\ Idle /\ obj
         /\ op' = "start_range_continuous"
         /\ arg' = period
         /\ log' = <<>>
         /\ exc' = "ValueError"
         /\ UNCHANGED <<regs, obj, _offset, pc, rv, i, polls, range_>>
    ELSE Call("start_range_continuous", period, <<"start_period">>)

\* if not 20 <= period <= 2550: raise ValueError
start_range_continuous(period) ==
    IF ~(20 <= period /\ period <= 2550)
    THEN /\ Idle /\ obj
         /\ op' = "start_range_continuous"
         /\ arg' = period
         /\ log' = <<>>
         /\ exc' = "ValueError"
         /\ UNCHANGED <<regs, obj, _offset, pc, rv, i, polls, range_>>
    ELSE Call("start_range_continuous", period, <<"start_period">>)

\* self._write_8(INTERMEASUREMENT_PERIOD, period_reg)
StartPeriod ==
    /\ At("start_period")
    /\ \/ Raise("OSError")
       \/ /\ _write_8(log, _VL6180X_REG_SYSRANGE_INTERMEASUREMENT_PERIOD,
                      period_reg(arg))
          /\ pc' = <<"start_start">> \o Tail(pc)
          /\ UNCHANGED <<obj, _offset, op, arg, rv, exc, i, polls, range_>>

\* Variant: the start command of a single shot (0x01) instead of 0x03.
StartStartSingleShot ==
    /\ At("start_start")
    /\ \/ Raise("OSError")
       \/ /\ _write_8(log, _VL6180X_REG_SYSRANGE_START, 1)
          /\ rv' = RvNone
          /\ pc' = Tail(pc)
          /\ UNCHANGED <<obj, _offset, op, arg, exc, i, polls, range_>>

\* self._write_8(SYSRANGE_START, 0x03)
StartStart ==
    /\ At("start_start")
    /\ \/ Raise("OSError")
       \/ /\ _write_8(log, _VL6180X_REG_SYSRANGE_START, 3)
          /\ rv' = RvNone
          /\ pc' = Tail(pc)
          /\ UNCHANGED <<obj, _offset, op, arg, exc, i, polls, range_>>

\* sensor.stop_range_continuous()
stop_range_continuous ==
    Call("stop_range_continuous", 0,
         <<"continuous_mode_enabled", "stop_if_continuous">>)

\* Variant: the stop command written whatever the mode.
StopUnconditional ==
    /\ At("stop_if_continuous")
    /\ \/ Raise("OSError")
       \/ /\ _write_8(log, _VL6180X_REG_SYSRANGE_START, 1)
          /\ rv' = RvNone
          /\ pc' = Tail(pc)
          /\ UNCHANGED <<obj, _offset, op, arg, exc, i, polls, range_>>

\* if self.continuous_mode_enabled: self._write_8(SYSRANGE_START, 0x01)
StopIfContinuous ==
    /\ At("stop_if_continuous")
    /\ IF rv.v = 1
       THEN \/ Raise("OSError")
            \/ /\ _write_8(log, _VL6180X_REG_SYSRANGE_START, 1)
               /\ rv' = RvNone
               /\ pc' = Tail(pc)
               /\ UNCHANGED <<obj, _offset, op, arg, exc, i, polls, range_>>
       ELSE /\ rv' = RvNone
            /\ pc' = Tail(pc)
            /\ UNCHANGED <<regs, obj, _offset, op, arg, log, exc, i, polls,
                           range_>>

(***************************************************************************)
(* range                                                                   *)
(***************************************************************************)
\* sensor.range
range == Call("range", 0, <<"continuous_mode_enabled", "range_if_continuous">>)

\* Variant: the single-shot sequence whatever the mode.
RangeAlwaysSingle ==
    /\ At("range_if_continuous")
    /\ pc' = <<"_read_range_single">> \o Tail(pc)
    /\ UNCHANGED <<regs, obj, _offset, op, arg, log, rv, exc, i, polls, range_>>

\* if self.continuous_mode_enabled: return self._read_range_continuous()
\* return self._read_range_single()
RangeIfContinuous ==
    /\ At("range_if_continuous")
    /\ pc' = IF rv.v = 1
             THEN <<"_read_range_continuous">> \o Tail(pc)
             ELSE <<"_read_range_single">> \o Tail(pc)
    /\ UNCHANGED <<regs, obj, _offset, op, arg, log, rv, exc, i, polls, range_>>

\* The answers a polling loop may receive: after MaxPoll answers that keep
\* the loop running, one that ends it.
PollVals(address, mask) ==
    IF polls < MaxPoll THEN ReadVals(address)
    ELSE { s \in ReadVals(address) : BitAnd(s, mask) # 0 }

\* Variant: the range-status register read once, the ready bit not awaited.
_read_range_single_no_wait ==
    /\ At("_read_range_single")
    /\ \/ Raise("OSError")
       \/ \E s \in PollVals(_VL6180X_REG_RESULT_RANGE_STATUS, 1) :
            /\ _read_8(log, _VL6180X_REG_RESULT_RANGE_STATUS, s)
            /\ polls' = 0
            /\ pc' = <<"range_single_start">> \o Tail(pc)
            /\ UNCHANGED <<obj, _offset, op, arg, rv, exc, i, range_>>

\* while not self._read_8(RANGE_STATUS) & 0x01: pass
_read_range_single ==
    /\ At("_read_range_single")
    /\ \/ Raise("OSError")
       \/ \E s \in PollVals(_VL6180X_REG_RESULT_RANGE_STATUS, 1) :
            /\ _read_8(log, _VL6180X_REG_RESULT_RANGE_STATUS, s)
            /\ IF BitAnd(s, 1) = 0
               THEN /\ polls' = polls + 1
                    /\ pc' = pc
               ELSE /\ polls' = 0
                    /\ pc' = <<"range_single_start">> \o Tail(pc)
            /\ UNCHANGED <<obj, _offset, op, arg, rv, exc, i, range_>>

\* self._write_8(SYSRANGE_START, 0x01); return self._read_range_continuous()
RangeSingleStart ==
    /\ At("range_single_start")
    /\ \/ Raise("OSError")
       \/ /\ _write_8(log, _VL6180X_REG_SYSRANGE_START, 1)
          /\ pc' = <<"_read_range_continuous">> \o Tail(pc)
          /\ UNCHANGED <<obj, _offset, op, arg, rv, exc, i, polls, range_>>

\* while not self._read_8(INTERRUPT_STATUS_GPIO) & 0x04: pass
_read_range_continuous ==
    /\ At("_read_range_continuous")
    /\ \/ Raise("OSError")
       \/ \E s \in PollVals(_VL6180X_REG_RESULT_INTERRUPT_STATUS_GPIO, 4) :
            /\ _read_8(log, _VL6180X_REG_RESULT_INTERRUPT_STATUS_GPIO, s)
            /\ IF BitAnd(s, 4) = 0
               THEN /\ polls' = polls + 1
                    /\ pc' = pc
               ELSE /\ polls' = 0
                    /\ pc' = <<"range_read_val">> \o Tail(pc)
            /\ UNCHANGED <<obj, _offset, op, arg, rv, exc, i, range_>>

\* range_ = self._read_8(RESULT_RANGE_VAL)
RangeReadVal ==
    /\ At("range_read_val")
    /\ \/ Raise("OSError")
       \/ \E r \in ReadVals(_VL6180X_REG_RESULT_RANGE_VAL) :
            /\ _read_8(log, _VL6180X_REG_RESULT_RANGE_VAL, r)
            /\ range_' = r
            /\ pc' = <<"range_clear_interrupt">> \o Tail(pc)
            /\ UNCHANGED <<obj, _offset, op, arg, rv, exc, i, polls>>

\* self._write_8(INTERRUPT_CLEAR, 0x07); return range_
RangeClearInterrupt ==
    /\ At("range_clear_interrupt")
    /\ \/ Raise("OSError")
       \/ /\ _write_8(log, _VL6180X_REG_SYSTEM_INTERRUPT_CLEAR, 7)
          /\ rv' = RvInt(range_)
          /\ range_' = 0
          /\ pc' = Tail(pc)
          /\ UNCHANGED <<obj, _offset, op, arg, exc, i, polls>>

(***************************************************************************)
(* range_history_enabled / range_from_history                              *)
(***************************************************************************)
\* if history_ctrl & 0x0: return False
\* if (history_ctrl > 1) & 0x1: return False
\* return True
range_history_enabled(history_ctrl) ==
    IF BitAnd(history_ctrl, 0) # 0 THEN FALSE
    ELSE IF BitAnd(BoolInt(history_ctrl > 1), 1) # 0 THEN FALSE
    ELSE TRUE

\* sensor.range_history_enabled
GetRangeHistoryEnabled ==
    Call("range_history_enabled", 0, <<"range_history_enabled">>)

RangeHistoryEnabled ==
    /\ At("range_history_enabled")
    /\ \/ Raise("OSError")
       \/ \E h \in ReadVals(_VL6180X_REG_SYSTEM_HISTORY_CTRL) :
            /\ _read_8(log, _VL6180X_REG_SYSTEM_HISTORY_CTRL, h)
            /\ rv' = RvBool(range_history_enabled(h))
            /\ pc' = Tail(pc)
            /\ UNCHANGED <<obj, _offset, op, arg, exc, i, polls, range_>>

\* sensor.range_from_history
range_from_history ==
    Call("range_from_history", 0,
         <<"range_history_enabled", "range_from_history_if">>)

\* if not self.range_history_enabled: return None
RangeFromHistoryIf ==
    /\ At("range_from_history_if")
    /\ IF rv.v = 1
       THEN /\ pc' = <<"range_from_history_read">> \o Tail(pc)
            /\ rv' = rv
       ELSE /\ pc' = Tail(pc)
            /\ rv' = RvNone
    /\ UNCHANGED <<regs, obj, _offset, op, arg, log, exc, i, polls, range_>>

\* Variant: the history read followed by an interrupt clear.
RangeFromHistoryReadAndClear ==
    /\ At("range_from_history_read")
    /\ \/ Raise("OSError")
       \/ \E r \in ReadVals(_VL6180X_REG_RESULT_HISTORY_BUFFER_0) :
            /\ log' = log \o << <<"r", _VL6180X_REG_RESULT_HISTORY_BUFFER_0, r>>,
                                <<"w", _VL6180X_REG_SYSTEM_INTERRUPT_CLEAR, 7>> >>
            /\ regs' = [regs EXCEPT ![_VL6180X_REG_SYSTEM_INTERRUPT_CLEAR] = 7]
            /\ rv' = RvInt(r)
            /\ pc' = Tail(pc)
            /\ UNCHANGED <<obj, _offset, op, arg, exc, i, polls, range_>>

\* return self._read_8(RESULT_HISTORY_BUFFER_0)
RangeFromHistoryRead ==
    /\ At("range_from_history_read")
    /\ \/ Raise("OSError")
       \/ \E r \in ReadVals(_VL6180X_REG_RESULT_HISTORY_BUFFER_0) :
            /\ _read_8(log, _VL6180X_REG_RESULT_HISTORY_BUFFER_0, r)
            /\ rv' = RvInt(r)
            /\ pc' = Tail(pc)
            /\ UNCHANGED <<obj, _offset, op, arg, exc, i, polls, range_>>

(***************************************************************************)
(* ranges_from_history                                                     *)
(***************************************************************************)
\* for age in range(16)
HistoryLen == 16

\* Contents the sensor's history buffer may have during one call, age 0
\* first.
HistBuffers ==
    { [k \in 1..HistoryLen |-> 100 + k], [k \in 1..HistoryLen |-> 17 - k] }

RvList(l) == [k |-> "list", v |-> l]

\* sensor.ranges_from_history
ranges_from_history ==
    Call("ranges_from_history", 0,
         <<"range_history_enabled", "ranges_from_history_if">>)

\* if not self.range_history_enabled: return None
RangesFromHistoryIf ==
    /\ At("ranges_from_history_if")
    /\ IF rv.v = 1
       THEN /\ pc' = <<"ranges_from_history_read">> \o Tail(pc)
            /\ rv' = RvList(<<>>)
       ELSE /\ pc' = Tail(pc)
            /\ rv' = RvNone
    /\ UNCHANGED <<regs, obj, _offset, op, arg, log, exc, i, polls, range_>>

\* Variant: for age in range(15).
RangesFromHistoryReadShort ==
    /\ At("ranges_from_history_read")
    /\ \/ Raise("OSError")
       \/ \E b \in HistBuffers :
            /\ rv.v = SubSeq(b, 1, i)
            /\ _read_8(log, _VL6180X_REG_RESULT_HISTORY_BUFFER_0 + i, b[i + 1])
            /\ rv' = RvList(Append(rv.v, b[i + 1]))
            /\ IF i + 1 < HistoryLen - 1
               THEN /\ i' = i + 1
                    /\ pc' = pc
               ELSE /\ i' = 0
                    /\ pc' = Tail(pc)
            /\ UNCHANGED <<obj, _offset, op, arg, exc, polls, range_>>

\* [self._read_8(RESULT_HISTORY_BUFFER_0 + age) for age in range(16)]
\* One read per step; i is age, rv collects the list.  The reads of one
\* call see one buffer.
RangesFromHistoryRead ==
    /\ At("ranges_from_history_read")
    /\ \/ Raise("OSError")
       \/ \E b \in HistBuffers :
            /\ rv.v = SubSeq(b, 1, i)
            /\ _read_8(log, _VL6180X_REG_RESULT_HISTORY_BUFFER_0 + i, b[i + 1])
            /\ rv' = RvList(Append(rv.v, b[i + 1]))
            /\ IF i + 1 < HistoryLen
               THEN /\ i' = i + 1
                    /\ pc' = pc
               ELSE /\ i' = 0
                    /\ pc' = Tail(pc)
            /\ UNCHANGED <<obj, _offset, op, arg, exc, polls, range_>>

(***************************************************************************)
(* The specification.                                                      *)
(***************************************************************************)
Next ==
    \/ (\E offset \in CtorOffsets : Construct(offset)) /\ UNCHANGED aux
    \/ InitModelId /\ UNCHANGED aux
    \/ LoadSettings /\ UNCHANGED aux
    \/ InitFreshOutOfReset /\ UNCHANGED aux
    \/ offset_setter /\ UNCHANGED aux
    \/ ContinuousModeEnabled /\ UNCHANGED aux
    \/ InitIfContinuous /\ UNCHANGED aux
    \/ InitSleep /\ UNCHANGED aux
    \/ InitHistoryCtrl /\ UNCHANGED aux
    \/ GetContinuousModeEnabled /\ UNCHANGED aux
    \/ GetOffset /\ UNCHANGED aux
    \/ (\E offset \in Offsets : SetOffset(offset)) /\ UNCHANGED aux
    \/ (\E period \in Periods : start_range_continuous(period)) /\ UNCHANGED aux
    \/ StartPeriod /\ UNCHANGED aux
    \/ StartStart /\ UNCHANGED aux
    \/ stop_range_continuous /\ UNCHANGED aux
    \/ StopIfContinuous /\ UNCHANGED aux
    \/ range /\ UNCHANGED aux
    \/ RangeIfContinuous /\ UNCHANGED aux
    \/ _read_range_single /\ UNCHANGED aux
    \/ RangeSingleStart /\ UNCHANGED aux
    \/ _read_range_continuous /\ UNCHANGED aux
    \/ RangeReadVal /\ UNCHANGED aux
    \/ RangeClearInterrupt /\ UNCHANGED aux
    \/ GetRangeHistoryEnabled /\ UNCHANGED aux
    \/ RangeHistoryEnabled /\ UNCHANGED aux
    \/ range_from_history /\ UNCHANGED aux
    \/ RangeFromHistoryIf /\ UNCHANGED aux
    \/ RangeFromHistoryRead /\ UNCHANGED aux

Spec == Init /\ [][Next]_vars

(***************************************************************************)
(* The registers of a sensor after __init__(offset) has returned, with     *)
(* range-start holding rs.                                                 *)
(***************************************************************************)
ConstructedRegs(offset, rs) ==
    [a \in StoredRegs |->
        IF a = _VL6180X_REG_IDENTIFICATION_MODEL_ID THEN MODEL_ID_VL6180X
        ELSE IF a = _VL6180X_REG_SYSTEM_HISTORY_CTRL THEN 1
        ELSE IF a = _VL6180X_REG_SYSRANGE_PART_TO_PART_RANGE_OFFSET
             THEN struct_pack_b(offset)
        ELSE IF a = _VL6180X_REG_SYSRANGE_START THEN rs
        ELSE IF \E k \in 1..Len(_load_settings) : _load_settings[k][1] = a
             THEN _load_settings[CHOOSE k \in 1..Len(_load_settings) :
                                    _load_settings[k][1] = a][2]
        ELSE 0]

\* A driver constructed with offset 0 and idle, on a sensor with registers r.
Attached(r) ==
    /\ regs = r
    /\ obj = TRUE
    /\ _offset = 0
    /\ pc = <<>>
    /\ op = ""
    /\ arg = 0
    /\ log = <<>>
    /\ rv = RvNone
    /\ exc = ""
    /\ i = 0
    /\ polls = 0
    /\ range_ = 0
    /\ reg = 0
    /\ gain = 0
    /\ lux = 0
    /\ lock = "free"

(***************************************************************************)
(* The history operations on a constructed driver whose sensor is in       *)
(* single-shot or continuous mode and holds any byte in the                *)
(* history-control register (the driver sets it only in __init__; a sensor *)
(* reset or another bus user can change it afterwards).                    *)
(***************************************************************************)
InitHistory ==
    \E h \in Byte, rs \in {0, 3} :
        Attached([ConstructedRegs(0, rs)
                     EXCEPT ![_VL6180X_REG_SYSTEM_HISTORY_CTRL] = h])

NextHistory ==
    \/ GetRangeHistoryEnabled /\ UNCHANGED aux
    \/ RangeHistoryEnabled /\ UNCHANGED aux
    \/ range_from_history /\ UNCHANGED aux
    \/ RangeFromHistoryIf /\ UNCHANGED aux
    \/ RangeFromHistoryRead /\ UNCHANGED aux
    \/ ranges_from_history /\ UNCHANGED aux
    \/ RangesFromHistoryIf /\ UNCHANGED aux
    \/ RangesFromHistoryRead /\ UNCHANGED aux

SpecHistory == InitHistory /\ [][NextHistory]_vars

(***************************************************************************)
(* read_lux.  The returned float is modelled exactly, as the reduced       *)
(* fraction <<numerator, denominator>>; the rounding of each float         *)
(* operation is not modelled.                                              *)
(***************************************************************************)
RECURSIVE GCD(_, _)
GCD(a, b) == IF b = 0 THEN a ELSE GCD(b, a % b)

\* The fraction n / d in lowest terms (n >= 0, d > 0).
Rat(n, d) == <<n \div GCD(n, d), d \div GCD(n, d)>>
\* q * (n / d) and q / (n / d).
RatMul(q, n, d) == Rat(q[1] * n, q[2] * d)
RatDiv(q, n, d) == Rat(q[1] * d, q[2] * n)

RvFloat(q) == [k |-> "float", v |-> q]

\* _read_16(address) completes: the two bytes read, big endian.
_read_16(l, address, result) ==
    /\ log' = Append(l, <<"r", address, BitOr(result[1] * 256, result[2])>>)
    /\ regs' = regs

\* An exception leaves read_lux: its locals are gone.
LuxRaise(e) ==
    /\ Raise(e)
    /\ reg' = 0
    /\ gain' = 0
    /\ lux' = 0
    /\ lock' = lock

\* sensor.read_lux(gain)
read_lux(g) ==
    /\ Call("read_lux", g, <<"lux_read_config">>)
    /\ gain' = g
    /\ UNCHANGED <<reg, lux, lock>>

\* Variant: the ready value ORed in without clearing the field first.
interrupt_on_als_ready_no_clear(c) == BitOr(c, 4 * 8)

\* reg &= ~0x38; reg |= 0x4 << 3
interrupt_on_als_ready(c) == BitOr(c - BitAnd(c, 56), 4 * 8)

\* reg = self._read_8(INTERRUPT_CONFIG), and the two updates of reg.
LuxReadConfig ==
    /\ At("lux_read_config")
    /\ \/ LuxRaise("OSError")
       \/ \E c \in ReadVals(_VL6180X_REG_SYSTEM_INTERRUPT_CONFIG) :
            /\ _read_8(log, _VL6180X_REG_SYSTEM_INTERRUPT_CONFIG, c)
            /\ reg' = interrupt_on_als_ready(c)
            /\ pc' = <<"lux_write_config">> \o Tail(pc)
            /\ UNCHANGED <<obj, _offset, op, arg, rv, exc, i, polls, range_,
                           gain, lux, lock>>

\* self._write_8(INTERRUPT_CONFIG, reg)
LuxWriteConfig ==
    /\ At("lux_write_config")
    /\ \/ LuxRaise("OSError")
       \/ /\ _write_8(log, _VL6180X_REG_SYSTEM_INTERRUPT_CONFIG, reg)
          /\ pc' = <<"lux_period_hi">> \o Tail(pc)
          /\ UNCHANGED <<obj, _offset, op, arg, rv, exc, i, polls, range_,
                         reg, gain, lux, lock>>

\* self._write_8(INTEGRATION_PERIOD_HI, 0)
LuxPeriodHi ==
    /\ At("lux_period_hi")
    /\ \/ LuxRaise("OSError")
       \/ /\ _write_8(log, _VL6180X_REG_SYSALS_INTEGRATION_PERIOD_HI, 0)
          /\ pc' = <<"lux_period_lo">> \o Tail(pc)
          /\ UNCHANGED <<obj, _offset, op, arg, rv, exc, i, polls, range_,
                         reg, gain, lux, lock>>

\* self._write_8(INTEGRATION_PERIOD_LO, 100)
LuxPeriodLo ==
    /\ At("lux_period_lo")
    /\ \/ LuxRaise("OSError")
       \/ /\ _write_8(log, _VL6180X_REG_SYSALS_INTEGRATION_PERIOD_LO, 100)
          /\ pc' = <<"lux_gain">> \o Tail(pc)
          /\ UNCHANGED <<obj, _offset, op, arg, rv, exc, i, polls, range_,
                         reg, gain, lux, lock>>

\* Python's min of two ints.
min(a, b) == IF b < a THEN b ELSE a

\* Variant: the gain written as requested, not clamped.
clamp_gain_missing(g) == g

\* gain = min(gain, ALS_GAIN_40)
clamp_gain(g) == min(g, ALS_GAIN_40)

\* The clamp, then self._write_8(ANALOGUE_GAIN, 0x40 | gain); bytes() of
\* _write_8 rejects a value outside 0..255 before the bus is used.
LuxGain ==
    /\ At("lux_gain")
    /\ IF BitOr(64, clamp_gain(gain)) \notin Byte
       THEN LuxRaise("ValueError")
       ELSE \/ LuxRaise("OSError")
            \/ /\ gain' = clamp_gain(gain)
               /\ _write_8(log, _VL6180X_REG_SYSALS_ANALOGUE_GAIN,
                           BitOr(64, clamp_gain(gain)))
               /\ pc' = <<"lux_start">> \o Tail(pc)
               /\ UNCHANGED <<obj, _offset, op, arg, rv, exc, i, polls,
                              range_, reg, lux, lock>>

\* self._write_8(SYSALS_START, 0x1)
LuxStart ==
    /\ At("lux_start")
    /\ \/ LuxRaise("OSError")
       \/ /\ _write_8(log, _VL6180X_REG_SYSALS_START, 1)
          /\ pc' = <<"lux_poll">> \o Tail(pc)
          /\ UNCHANGED <<obj, _offset, op, arg, rv, exc, i, polls, range_,
                         reg, gain, lux, lock>>

\* The field at bits 3..5 of the interrupt status: (s >> 3) & 0x7.
als_event(s) == BitAnd(s \div 8, 7)

\* The answers the polling loop of read_lux may receive: after MaxPoll
\* answers that keep it running, one that ends it.
AlsPollVals ==
    IF polls < MaxPoll THEN AlsStatusVals
    ELSE { s \in AlsStatusVals : als_event(s) = 4 }

\* Variant: the loop ends as soon as bit 5 of the status is set.
LuxPollBit5 ==
    /\ At("lux_poll")
    /\ \/ LuxRaise("OSError")
       \/ \E s \in AlsPollVals :
            /\ _read_8(log, _VL6180X_REG_RESULT_INTERRUPT_STATUS_GPIO, s)
            /\ IF BitAnd(s, 32) = 0
               THEN /\ polls' = polls + 1
                    /\ pc' = pc
               ELSE /\ polls' = 0
                    /\ pc' = <<"lux_read_als">> \o Tail(pc)
            /\ UNCHANGED <<obj, _offset, op, arg, rv, exc, i, range_,
                           reg, gain, lux, lock>>

\* while ((self._read_8(INTERRUPT_STATUS_GPIO) >> 3) & 0x7) != 4: pass
LuxPoll ==
    /\ At("lux_poll")
    /\ \/ LuxRaise("OSError")
       \/ \E s \in AlsPollVals :
            /\ _read_8(log, _VL6180X_REG_RESULT_INTERRUPT_STATUS_GPIO, s)
            /\ IF als_event(s) # 4
               THEN /\ polls' = polls + 1
                    /\ pc' = pc
               ELSE /\ polls' = 0
                    /\ pc' = <<"lux_read_als">> \o Tail(pc)
            /\ UNCHANGED <<obj, _offset, op, arg, rv, exc, i, range_,
                           reg, gain, lux, lock>>

\* lux = self._read_16(RESULT_ALS_VAL)
LuxReadAls ==
    /\ At("lux_read_als")
    /\ \/ LuxRaise("OSError")
       \/ \E b \in AlsBytes :
            /\ _read_16(log, _VL6180X_REG_RESULT_ALS_VAL, b)
            /\ lux' = BitOr(b[1] * 256, b[2])
            /\ pc' = <<"lux_clear">> \o Tail(pc)
            /\ UNCHANGED <<obj, _offset, op, arg, rv, exc, i, polls, range_,
                           reg, gain, lock>>

\* Variant: the 20x and 40x divisors exchanged.
lux_calibrated_swapped(raw, g) ==
    LET counted == RatMul(Rat(raw, 1), 32, 100)
        gained == IF g = ALS_GAIN_1 THEN counted
                  ELSE IF g = ALS_GAIN_1_25 THEN RatDiv(counted, 125, 100)
                  ELSE IF g = ALS_GAIN_1_67 THEN RatDiv(counted, 167, 100)
                  ELSE IF g = ALS_GAIN_2_5 THEN RatDiv(counted, 25, 10)
                  ELSE IF g = ALS_GAIN_5 THEN RatDiv(counted, 5, 1)
                  ELSE IF g = ALS_GAIN_10 THEN RatDiv(counted, 10, 1)
                  ELSE IF g = ALS_GAIN_20 THEN RatDiv(counted, 40, 1)
                  ELSE IF g = ALS_GAIN_40 THEN RatDiv(counted, 20, 1)
                  ELSE counted
    IN  RatDiv(RatMul(gained, 100, 1), 100, 1)

\* lux *= 0.32; the if/elif chain over the gain; lux *= 100; lux /= 100
lux_calibrated(raw, g) ==
    LET counted == RatMul(Rat(raw, 1), 32, 100)
        gained == IF g = ALS_GAIN_1 THEN counted
                  ELSE IF g = ALS_GAIN_1_25 THEN RatDiv(counted, 125, 100)
                  ELSE IF g = ALS_GAIN_1_67 THEN RatDiv(counted, 167, 100)
                  ELSE IF g = ALS_GAIN_2_5 THEN RatDiv(counted, 25, 10)
                  ELSE IF g = ALS_GAIN_5 THEN RatDiv(counted, 5, 1)
                  ELSE IF g = ALS_GAIN_10 THEN RatDiv(counted, 10, 1)
                  ELSE IF g = ALS_GAIN_20 THEN RatDiv(counted, 20, 1)
                  ELSE IF g = ALS_GAIN_40 THEN RatDiv(counted, 40, 1)
                  ELSE counted
    IN  RatDiv(RatMul(gained, 100, 1), 100, 1)

\* self._write_8(INTERRUPT_CLEAR, 0x07), the conversion, return lux
LuxClear ==
    /\ At("lux_clear")
    /\ \/ LuxRaise("OSError")
       \/ /\ _write_8(log, _VL6180X_REG_SYSTEM_INTERRUPT_CLEAR, 7)
          /\ rv' = RvFloat(lux_calibrated(lux, gain))
          /\ pc' = Tail(pc)
          /\ reg' = 0
          /\ gain' = 0
          /\ lux' = 0
          /\ UNCHANGED <<obj, _offset, op, arg, exc, i, polls, range_, lock>>

(***************************************************************************)
(* read_lux on a constructed driver whose sensor holds any byte in the     *)
(* interrupt-config register (the range interrupt bits 0..2 and bits 6..7  *)
(* belong to other users of the register).                                 *)
(***************************************************************************)
InitLux ==
    \E c \in Byte :
        Attached([ConstructedRegs(0, 0)
                     EXCEPT ![_VL6180X_REG_SYSTEM_INTERRUPT_CONFIG] = c])

NextLux ==
    \/ \E g \in Gains : read_lux(g)
    \/ LuxReadConfig
    \/ LuxWriteConfig
    \/ LuxPeriodHi
    \/ LuxPeriodLo
    \/ LuxGain
    \/ LuxStart
    \/ LuxPoll
    \/ LuxReadAls
    \/ LuxClear

SpecLux == InitLux /\ [][NextLux]_vars

(***************************************************************************)
(* The register primitives, one bus transfer at a time.  "with             *)
(* self._device" takes the lock of the bus when it is free (__enter__      *)
(* retries try_lock until then), runs the block, and unlocks on the way    *)
(* out, whether the block ended normally or with an exception, which then  *)
(* propagates.  A second user of the bus follows the same protocol.        *)
(***************************************************************************)
\* [(address >> 8) & 0xFF, address & 0xFF]
address_bytes(address) ==
    <<BitAnd(address \div 256, 255), BitAnd(address, 255)>>

\* The bytes a primitive hands to i2c.write.
write_bytes(name, address, data) ==
    IF name = "_write_8" THEN address_bytes(address) \o <<data>>
    ELSE IF name = "_write_16"
         THEN address_bytes(address) \o
                  <<BitAnd(data \div 256, 255), BitAnd(data, 255)>>
    ELSE address_bytes(address)

\* The registers after the sensor has received the bytes of a write: the
\* data bytes go to the addressed register and the ones that follow it.
Stored(r, address, data) ==
    [a \in StoredRegs |->
        IF a >= address /\ a < address + Len(data)
        THEN data[a - address + 1] ELSE r[a]]

\* A primitive is called: self._write_8(address, data), ...
CallPrimitive(c) ==
    /\ Call(c[1], <<c[2], c[3]>>, <<"with_enter">>)
    /\ UNCHANGED aux

\* with self._device: __enter__ has taken the lock.
DeviceEnter ==
    /\ At("with_enter")
    /\ lock = "free"
    /\ lock' = "driver"
    /\ pc' = <<"i2c_write">>
    /\ UNCHANGED <<regs, obj, _offset, op, arg, log, rv, exc, i, polls,
                   range_, reg, gain, lux>>

\* i2c.write(bytes([...])): the only transfer of _write_8 and _write_16,
\* the address write of _read_8 and _read_16.
I2cWrite ==
    /\ At("i2c_write")
    /\ \/ /\ exc' = "OSError"
          /\ pc' = <<"with_exit">>
          /\ UNCHANGED <<regs, log>>
       \/ /\ log' = Append(log, <<"write", "driver",
                                  write_bytes(op, arg[1], arg[2])>>)
          /\ regs' = Stored(regs, arg[1],
                            SubSeq(write_bytes(op, arg[1], arg[2]), 3,
                                   Len(write_bytes(op, arg[1], arg[2]))))
          /\ pc' = IF op \in {"_read_8", "_read_16"}
                   THEN <<"i2c_readinto">> ELSE <<"with_exit">>
          /\ exc' = exc
    /\ UNCHANGED <<obj, _offset, op, arg, rv, i, polls, range_, aux>>

\* Variant: a failed transfer leaves the primitive without unlocking.
I2cReadintoNoUnlock ==
    /\ At("i2c_readinto")
    /\ \/ /\ exc' = "OSError"
          /\ pc' = <<>>
          /\ UNCHANGED <<log, rv>>
       \/ \E result \in IF op = "_read_8"
                        THEN { <<b>> : b \in ReadVals(arg[1]) }
                        ELSE AlsBytes :
            /\ log' = Append(log, <<"readinto", "driver", result>>)
            /\ rv' = RvInt(IF Len(result) = 1 THEN result[1]
                           ELSE BitOr(result[1] * 256, result[2]))
            /\ pc' = <<"with_exit">>
            /\ exc' = exc
    /\ UNCHANGED <<regs, obj, _offset, op, arg, i, polls, range_, aux>>

\* i2c.readinto(result) and the value to return: result[0], or
\* (result[0] << 8) | result[1].
I2cReadinto ==
    /\ At("i2c_readinto")
    /\ \/ /\ exc' = "OSError"
          /\ pc' = <<"with_exit">>
          /\ UNCHANGED <<log, rv>>
       \/ \E result \in IF op = "_read_8"
                        THEN { <<b>> : b \in ReadVals(arg[1]) }
                        ELSE AlsBytes :
            /\ log' = Append(log, <<"readinto", "driver", result>>)
            /\ rv' = RvInt(IF Len(result) = 1 THEN result[1]
                           ELSE BitOr(result[1] * 256, result[2]))
            /\ pc' = <<"with_exit">>
            /\ exc' = exc
    /\ UNCHANGED <<regs, obj, _offset, op, arg, i, polls, range_, aux>>

\* The end of the with block: __exit__ unlocks, then the primitive returns
\* or the exception propagates.
DeviceExit ==
    /\ At("with_exit")
    /\ lock' = "free"
    /\ pc' = <<>>
    /\ rv' = IF exc = "" /\ op \in {"_write_8", "_write_16"}
             THEN RvNone ELSE rv
    /\ UNCHANGED <<regs, obj, _offset, op, arg, log, exc, i, polls, range_,
                   reg, gain, lux>>

\* The transfers of the other user in a log.
OtherTransfers(l) == SelectSeq(l, LAMBDA e : e[2] = "other")

\* The other user of the bus: takes the lock when it is free, transfers
\* while holding it, unlocks.
OtherLock ==
    /\ lock = "free"
    /\ lock' = "other"
    /\ UNCHANGED <<regs, obj, _offset, pc, op, arg, log, rv, exc, i, polls,
                   range_, reg, gain, lux>>

OtherTransfer ==
    /\ lock = "other"
    /\ Len(OtherTransfers(log)) < MaxOther
    /\ log' = Append(log, <<"write", "other", <<>> >>)
    /\ UNCHANGED <<regs, obj, _offset, pc, op, arg, rv, exc, i, polls,
                   range_, aux>>

OtherUnlock ==
    /\ lock = "other"
    /\ lock' = "free"
    /\ UNCHANGED <<regs, obj, _offset, pc, op, arg, log, rv, exc, i, polls,
                   range_, reg, gain, lux>>

InitBus == Attached(ConstructedRegs(0, 0))

NextBus ==
    \/ \E c \in PrimitiveCalls : CallPrimitive(c)
    \/ DeviceEnter
    \/ I2cWrite
    \/ I2cReadinto
    \/ DeviceExit
    \/ OtherLock
    \/ OtherTransfer
    \/ OtherUnlock

SpecBus == InitBus /\ [][NextBus]_vars

\* __init__ leaves the registers that ConstructedRegs describes.
ConstructedRegsOK ==
    (obj /\ Idle /\ op = "__init__" /\ exc = "") =>
        regs = ConstructedRegs(arg, regs[_VL6180X_REG_SYSRANGE_START])

TypeOK ==
    /\ regs \in [StoredRegs -> Byte]
    /\ obj \in BOOLEAN
    /\ polls \in 0..MaxPoll

(***************************************************************************)
(* Vocabulary of the properties.                                           *)
(***************************************************************************)
Last(s) == s[Len(s)]
IsPrefix(s, t) == Len(s) <= Len(t) /\ \A k \in 1..Len(s) : s[k] = t[k]
IsWrite(e) == e[1] = "w"
IsRead(e) == e[1] = "r"
Writes(l) == SelectSeq(l, IsWrite)
\* The public operation name has returned normally.
Returned(name) == Idle /\ op = name /\ exc = ""
ValidPeriod(p) == 20 <= p /\ p <= 2550

(***************************************************************************)
(* C1: for every period p with 20 <= p <= 2550, start_range_continuous(p)  *)
(* writes exactly (p // 10) - 1 (a value in 1..254; 157 gives the value of *)
(* 150) to the inter-measurement-period register 0x01B, only after that    *)
(* writes 0x03 to the range-start register 0x018, and issues no other      *)
(* register write (and no read).                                           *)
(***************************************************************************)
C1_Expected(p) == << <<"w", 27, (p \div 10) - 1>>, <<"w", 24, 3>> >>

C1_StartWritesPeriodThenStart ==
    (op = "start_range_continuous" /\ ValidPeriod(arg)) =>
        /\ IsPrefix(log, C1_Expected(arg))
        /\ (Returned("start_range_continuous") => log = C1_Expected(arg))
        /\ ((arg \div 10) - 1) \in 1..254
        /\ (log # <<>> /\ arg \in {150, 157} => log[1][3] = 14)

C1_Witness ==
    /\ Returned("start_range_continuous")
    /\ arg = 157
    /\ log = << <<"w", 27, 14>>, <<"w", 24, 3>> >>

(***************************************************************************)
(* C2: for every period p < 20 or p > 2550, start_range_continuous(p)      *)
(* raises ValueError and issues no bus transaction, so the sensor          *)
(* registers and the mirrored offset are unchanged; 20 and 2550 themselves *)
(* are accepted.                                                           *)
(***************************************************************************)
C2_RejectedState ==
    op = "start_range_continuous" =>
        IF ValidPeriod(arg)
        THEN exc # "ValueError"
        ELSE Idle /\ exc = "ValueError" /\ log = <<>>

C2_RejectedStep ==
    (op' = "start_range_continuous" /\ ~ValidPeriod(arg')) =>
        /\ regs' = regs
        /\ _offset' = _offset
        /\ obj' = obj

C2_InvalidPeriodRejected == []C2_RejectedState /\ [][C2_RejectedStep]_vars

C2_Witness ==
    /\ op = "start_range_continuous"
    /\ arg = 2551
    /\ exc = "ValueError"
    /\ regs[_VL6180X_REG_SYSRANGE_START] = 3

(***************************************************************************)
(* C3: on a bus whose range-start register stores the last value written,  *)
(* continuous_mode_enabled reads true when read immediately after a        *)
(* successful start_range_continuous(p), and false when read immediately   *)
(* after stop_range_continuous(), whatever operations preceded them.       *)
(***************************************************************************)
C3_ReadAfter ==
    (Idle /\ exc = "" /\ op' = "continuous_mode_enabled" /\ exc' = "") =>
        /\ (op = "start_range_continuous" => rv' = RvBool(TRUE))
        /\ (op = "stop_range_continuous" => rv' = RvBool(FALSE))

C3_ModeReadAfterStartStop == [][C3_ReadAfter]_vars

\* A start has returned and the register it left reads as enabled.
C3_Witness ==
    /\ Returned("start_range_continuous")
    /\ Len(log) = 2
    /\ regs[_VL6180X_REG_SYSRANGE_START] >= 2

(***************************************************************************)
(* C4: stop_range_continuous() writes 0x01 to the range-start register     *)
(* 0x018 iff the range-start register it reads reports continuous mode     *)
(* (value >= 2); otherwise it writes nothing.  After it returns the        *)
(* register reads as not continuous, so a second call in a row writes      *)
(* nothing and leaves the stored registers as the first call left them.    *)
(***************************************************************************)
C4_StopWritesIffEnabled ==
    (op = "stop_range_continuous" /\ log # <<>>) =>
        LET v == log[1][3] IN
        /\ log[1] = <<"r", 24, v>>
        /\ IsPrefix(log, << <<"r", 24, v>>, <<"w", 24, 1>> >>)
        /\ (Len(log) = 2 => v >= 2)
        /\ (Returned("stop_range_continuous") =>
               /\ (v >= 2 <=> Len(log) = 2)
               /\ regs[24] < 2)

C4_Witness ==
    /\ Returned("stop_range_continuous")
    /\ log = << <<"r", 24, 3>>, <<"w", 24, 1>> >>

(***************************************************************************)
(* C5: for every byte v read from the range-start register 0x018,          *)
(* continuous_mode_enabled returns true iff v >= 2, and the property       *)
(* performs exactly one register read and no write.                        *)
(***************************************************************************)
\* The property has just returned: to one of its callers, or to the user.
C5_JustReturned ==
    \/ At("init_if_continuous")
    \/ At("stop_if_continuous")
    \/ At("range_if_continuous")
    \/ Returned("continuous_mode_enabled")

C5_Result ==
    C5_JustReturned =>
        /\ log # <<>>
        /\ Last(log) = <<"r", 24, regs[24]>>
        /\ rv = [k |-> "bool", v |-> IF regs[24] >= 2 THEN 1 ELSE 0]
        /\ (Idle => Len(log) = 1)

C5_OneRead ==
    (At("continuous_mode_enabled") /\ exc' = "") =>
        /\ Len(log') = Len(log) + 1
        /\ Last(log') = <<"r", 24, regs[24]>>
        /\ regs' = regs

C5_EnabledIffAtLeastTwo == []C5_Result /\ [][C5_OneRead]_vars

C5_Witness ==
    /\ At("init_if_continuous")
    /\ Last(log) = <<"r", 24, 2>>
    /\ rv = RvBool(TRUE)

(***************************************************************************)
(* C6: reading range while continuous mode is detected (range-start reads  *)
(* >= 2) never writes range-start and never reads the range-status         *)
(* register: it polls interrupt-status 0x04F for bit 2, reads range-value  *)
(* 0x062 and writes 0x07 to interrupt-clear 0x015.  Reading range while    *)
(* continuous mode is not detected performs the single-shot sequence, with *)
(* exactly one write of 0x01 to range-start.                               *)
(***************************************************************************)
\* l[from..Len(l)] is: polls of 0x04F with bit 2 clear, one poll with bit 2
\* set, the read of 0x062, the write of 0x07 to 0x015.
C6_ResultSteps(l, from) ==
    LET n == Len(l) IN
    /\ n >= from + 2
    /\ \A k \in from..(n - 3) :
          /\ IsRead(l[k]) /\ l[k][2] = 79
          /\ (l[k][3] \div 4) % 2 = 0
    /\ IsRead(l[n - 2]) /\ l[n - 2][2] = 79 /\ (l[n - 2][3] \div 4) % 2 = 1
    /\ IsRead(l[n - 1]) /\ l[n - 1][2] = 98
    /\ l[n] = <<"w", 21, 7>>

\* l[2..at-1] is: polls of 0x04D with bit 0 clear, then one with bit 0 set.
C6_ReadySteps(l, at) ==
    /\ at >= 3
    /\ \A k \in 2..(at - 2) :
          IsRead(l[k]) /\ l[k][2] = 77 /\ l[k][3] % 2 = 0
    /\ IsRead(l[at - 1]) /\ l[at - 1][2] = 77 /\ l[at - 1][3] % 2 = 1

C6_RangeByMode ==
    (op = "range" /\ log # <<>>) =>
        LET v == log[1][3]
            starts == { k \in 1..Len(log) : IsWrite(log[k]) /\ log[k][2] = 24 }
        IN
        /\ log[1] = <<"r", 24, v>>
        /\ v >= 2 =>
              /\ starts = {}
              /\ \A k \in 2..Len(log) : ~(IsRead(log[k]) /\ log[k][2] = 77)
              /\ \A k \in 2..Len(log) :
                    \/ IsRead(log[k]) /\ log[k][2] \in {79, 98}
                    \/ log[k] = <<"w", 21, 7>>
              /\ Returned("range") => C6_ResultSteps(log, 2)
        /\ (v < 2 /\ Returned("range")) =>
              /\ Cardinality(starts) = 1
              /\ \A k \in starts :
                    /\ log[k] = <<"w", 24, 1>>
                    /\ C6_ReadySteps(log, k)
                    /\ C6_ResultSteps(log, k + 1)

C6_Witness ==
    /\ Returned("range")
    /\ log[1] = <<"r", 24, 3>>
    /\ Len(log) = 5

(***************************************************************************)
(* C7: on a constructed driver the mirrored offset is the last value whose *)
(* write to the offset register 0x024 completed: the register holds its    *)
(* encoding, an assignment that fails (value outside [-128,127], or a      *)
(* transport error) changes neither, and the getter returns the mirrored   *)
(* value without a bus transaction.                                        *)
(***************************************************************************)
C7_Mirror ==
    obj =>
        /\ _offset \in -128..127
        /\ regs[36] = IF _offset >= 0 THEN _offset ELSE _offset + 256

C7_FailedOrGet ==
    /\ (obj /\ op' = "offset=" /\ exc' # "") =>
          _offset' = _offset /\ regs' = regs
    /\ (obj /\ Idle /\ op' = "offset") =>
          /\ rv' = [k |-> "int", v |-> _offset]
          /\ log' = <<>>
          /\ exc' = ""
          /\ regs' = regs
          /\ _offset' = _offset

C7_MirrorIsLastWritten == []C7_Mirror /\ [][C7_FailedOrGet]_vars

\* A transport error ended an assignment and the mirror kept the old value.
C7_Witness ==
    /\ obj /\ Idle
    /\ op = "offset=" /\ arg = -1 /\ exc = "OSError"
    /\ _offset = 127
    /\ regs[36] = 127

(***************************************************************************)
(* C8: for every offset v in [-128,127], setting offset to v and then      *)
(* reading offset returns v, and the single byte written to the offset     *)
(* register 0x024 is the two's-complement encoding of v (v for v >= 0,     *)
(* v + 256 for v < 0).                                                     *)
(***************************************************************************)
C8_Encoding(v) == IF v >= 0 THEN v ELSE v + 256

C8_SetState ==
    /\ (op = "offset=" /\ arg \in -128..127) => exc # "struct.error"
    /\ Returned("offset=") =>
          /\ arg \in -128..127
          /\ _offset = arg
          /\ log = << <<"w", 36, C8_Encoding(arg)>> >>
          /\ \A v \in -128..127 : struct_pack_b(v) = C8_Encoding(v)

C8_GetAfterSet ==
    (Returned("offset=") /\ op' = "offset") => rv' = [k |-> "int", v |-> arg]

C8_OffsetRoundTrip == []C8_SetState /\ [][C8_GetAfterSet]_vars

C8_Witness ==
    /\ Returned("offset=")
    /\ arg = -128
    /\ log = << <<"w", 36, 128>> >>

(***************************************************************************)
(* C9: if the model-identification register 0x000 reads a value other than *)
(* 0xB4 at construction, construction fails with RuntimeError (device not  *)
(* found), no driver object exists, and no register write is issued.       *)
(***************************************************************************)
C9_WrongModelId ==
    (op = "__init__" /\ log # <<>> /\ log[1][3] # 180) =>
        /\ log = << <<"r", 0, regs[0]>> >>
        /\ Idle
        /\ exc = "RuntimeError"
        /\ ~obj

C9_Witness ==
    /\ op = "__init__"
    /\ log = << <<"r", 0, 181>> >>
    /\ exc = "RuntimeError"

(***************************************************************************)
(* C10 (as amended): constructing the driver against a sensor whose model  *)
(* ID reads 0xB4 and that is not in continuous mode produces exactly this  *)
(* sequence of register writes: the writes of the settings table in table  *)
(* order, then 0x00 to fresh-out-of-reset 0x016, then the two's-complement *)
(* byte of the offset argument to the offset register 0x024, then 0x01 to  *)
(* history-control 0x012, which is the last transaction of construction.   *)
(***************************************************************************)
C10_Constructed ==
    /\ obj /\ Returned("__init__")
    /\ \A k \in 1..Len(log) :
          (IsRead(log[k]) /\ log[k][2] = 24) => log[k][3] < 2

C10_TableWrites ==
    [k \in 1..Len(_load_settings) |->
        <<"w", _load_settings[k][1], _load_settings[k][2]>>]

C10_ConstructionWrites ==
    C10_Constructed =>
        /\ Writes(log) = C10_TableWrites \o
                         << <<"w", 22, 0>>,
                            <<"w", 36, C8_Encoding(arg)>>,
                            <<"w", 18, 1>> >>
        /\ Last(log) = <<"w", 18, 1>>
        /\ Len(C10_TableWrites) = 39

C10_Witness ==
    /\ C10_Constructed
    /\ arg = -128
    /\ Len(Writes(log)) = 42

\* C10 as the claim states it: after the table and the fresh-out-of-reset
\* write, the history-enable write is the only further write.
C10_Original ==
    C10_Constructed =>
        Writes(log) = C10_TableWrites \o
                      << <<"w", 22, 0>>, <<"w", 18, 1>> >>

(***************************************************************************)
(* C11: if at construction the range-start register reports continuous     *)
(* mode (value >= 2), the constructor writes the stop command 0x01 to      *)
(* range-start and then waits at least 100 ms before the history-enable    *)
(* write; if the register does not report continuous mode, construction    *)
(* writes nothing to range-start and does not wait.                        *)
(***************************************************************************)
C11_Positions(P(_)) == { k \in 1..Len(log) : P(log[k]) }
C11_IsModeRead(e) == IsRead(e) /\ e[2] = 24
C11_IsStartWrite(e) == IsWrite(e) /\ e[2] = 24
C11_IsSleep(e) == e[1] = "sleep"
C11_IsHistoryWrite(e) == IsWrite(e) /\ e[2] = 18

C11_StopThenWait ==
    (op = "__init__" /\ C11_Positions(C11_IsModeRead) # {}) =>
        LET first == CHOOSE k \in C11_Positions(C11_IsModeRead) :
                        \A m \in C11_Positions(C11_IsModeRead) : k <= m
        IN
        IF log[first][3] >= 2
        THEN /\ \A k \in C11_Positions(C11_IsStartWrite) :
                   log[k] = <<"w", 24, 1>>
             /\ \A h \in C11_Positions(C11_IsHistoryWrite) :
                   \E s, t \in 1..Len(log) :
                      /\ first < s /\ s < t /\ t < h
                      /\ log[s] = <<"w", 24, 1>>
                      /\ C11_IsSleep(log[t]) /\ log[t][3] >= 100
        ELSE /\ C11_Positions(C11_IsStartWrite) = {}
             /\ C11_Positions(C11_IsSleep) = {}

C11_Witness ==
    /\ obj /\ Returned("__init__")
    /\ Len(log) = 47
    /\ log[45] = <<"w", 24, 1>>
    /\ log[46] = <<"sleep", 0, 100>>
    /\ log[47] = <<"w", 18, 1>>

(***************************************************************************)
(* C18: a single-shot range read performs its bus transactions in this     *)
(* order: polls of range-status 0x04D until bit 0 is set, one write of     *)
(* 0x01 to range-start, polls of interrupt-status 0x04F until bit 2 is     *)
(* set, the read of range-value 0x062, and last the write of 0x07 to       *)
(* interrupt-clear 0x015; it returns the byte read from 0x062, and         *)
(* range-start is never written before the ready bit has been seen set.    *)
(***************************************************************************)
\* The step of the sequence a transaction is: 1 a range-status poll that
\* is not ready, 2 one that is ready, 3 the start write, 4 an
\* interrupt-status poll without bit 2, 5 one with bit 2, 6 the range-value
\* read, 7 the interrupt clear, 0 anything else.
C18_Step(e) ==
    IF IsRead(e) /\ e[2] = 77 THEN (IF e[3] % 2 = 1 THEN 2 ELSE 1)
    ELSE IF e = <<"w", 24, 1>> THEN 3
    ELSE IF IsRead(e) /\ e[2] = 79
         THEN (IF (e[3] \div 4) % 2 = 1 THEN 5 ELSE 4)
    ELSE IF IsRead(e) /\ e[2] = 98 THEN 6
    ELSE IF e = <<"w", 21, 7>> THEN 7
    ELSE 0

\* The steps that may follow a step.
C18_After(a) ==
    CASE a = 1 -> {1, 2}
      [] a = 2 -> {3}
      [] a = 3 -> {4, 5}
      [] a = 4 -> {4, 5}
      [] a = 5 -> {6}
      [] a = 6 -> {7}
      [] OTHER -> {}

C18_SingleShotOrder ==
    (op = "range" /\ Len(log) >= 2 /\ log[1][3] < 2) =>
        /\ C18_Step(log[2]) \in {1, 2}
        /\ \A k \in 2..(Len(log) - 1) :
              C18_Step(log[k + 1]) \in C18_After(C18_Step(log[k]))
        /\ Returned("range") =>
              /\ C18_Step(Last(log)) = 7
              /\ rv = [k |-> "int", v |-> log[Len(log) - 1][3]]

C18_Witness ==
    /\ Returned("range")
    /\ log = << <<"r", 24, 1>>, <<"r", 77, 0>>, <<"r", 77, 1>>,
                <<"w", 24, 1>>, <<"r", 79, 0>>, <<"r", 79, 4>>,
                <<"r", 98, 57>>, <<"w", 21, 7>> >>
    /\ rv = [k |-> "int", v |-> 57]

(***************************************************************************)
(* C12: for every byte h read from the history-control register 0x012,     *)
(* range_history_enabled returns false when bit 0 of h (buffering enable)  *)
(* is unset, false when buffering is enabled but bit 1 (ambient-light      *)
(* data) is set, and true in every other case.                             *)
(* The code does not do this: it returns true exactly for h <= 1.          *)
(***************************************************************************)
C12_Intended(h) == h % 2 = 1 /\ (h \div 2) % 2 = 0

C12_Original ==
    Returned("range_history_enabled") =>
        /\ log = << <<"r", 18, regs[18]>> >>
        /\ rv = [k |-> "bool", v |-> IF C12_Intended(regs[18]) THEN 1 ELSE 0]

(***************************************************************************)
(* C13: when range_history_enabled is true at the call,                    *)
(* ranges_from_history returns exactly 16 values, element i being the byte *)
(* read from register 0x052 + i, age 0 first, and range_from_history       *)
(* returns the byte read from 0x052; both return None exactly when         *)
(* range_history_enabled is false at the call.                             *)
(***************************************************************************)
C13_HistoryValues ==
    /\ Returned("ranges_from_history") =>
          /\ log[1] = <<"r", 18, regs[18]>>
          /\ IF range_history_enabled(regs[18])
             THEN /\ rv.k = "list"
                  /\ Len(rv.v) = 16
                  /\ Len(log) = 17
                  /\ \A a \in 0..15 : log[a + 2] = <<"r", 82 + a, rv.v[a + 1]>>
             ELSE /\ rv.k = "None"
                  /\ Len(log) = 1
    /\ Returned("range_from_history") =>
          /\ log[1] = <<"r", 18, regs[18]>>
          /\ IF range_history_enabled(regs[18])
             THEN /\ rv.k = "int"
                  /\ log = << <<"r", 18, regs[18]>>, <<"r", 82, rv.v>> >>
             ELSE /\ rv.k = "None"
                  /\ Len(log) = 1

C13_Witness ==
    /\ Returned("ranges_from_history")
    /\ rv.k = "list"
    /\ rv.v = [k \in 1..16 |-> 17 - k]
    /\ log[17] = <<"r", 97, 1>>

(***************************************************************************)
(* C14: range_from_history and ranges_from_history never block and never   *)
(* change sensor state: each issues at most 2, respectively 17, register   *)
(* reads, reads no register twice (no polling loop) and issues no register *)
(* write, in particular none to interrupt-clear 0x015 or range-start       *)
(* 0x018, whatever the sensor's mode.                                      *)
(***************************************************************************)
C14_HistoryOp == op \in {"range_from_history", "ranges_from_history"}

C14_ReadsOnly ==
    C14_HistoryOp =>
        /\ \A k \in 1..Len(log) : IsRead(log[k]) /\ log[k][2] \notin {21, 24}
        /\ \A k, m \in 1..Len(log) : log[k][2] = log[m][2] => k = m
        /\ Len(log) <= IF op = "range_from_history" THEN 2 ELSE 17
        /\ polls = 0

C14_NoRegisterChange ==
    (op' \in {"range_from_history", "ranges_from_history"}) => regs' = regs

C14_HistoryNeverBlocksNorWrites ==
    []C14_ReadsOnly /\ [][C14_NoRegisterChange]_vars

C14_Witness ==
    /\ Returned("range_from_history")
    /\ regs[24] = 3
    /\ Len(log) = 2

(***************************************************************************)
(* C20: for every byte c in 0..255 that the interrupt-config register      *)
(* 0x014 holds when read_lux starts, the value read_lux writes back has    *)
(* bits 3..5 equal to 4, every other bit (0..2 and 6..7) equal to the same *)
(* bit of c, and lies in 0..255.                                           *)
(***************************************************************************)
C20_WrittenBack ==
    (op = "read_lux" /\ Len(log) >= 2) =>
        LET c == log[1][3]
            x == log[2][3]
        IN  /\ log[1] = <<"r", _VL6180X_REG_SYSTEM_INTERRUPT_CONFIG, c>>
            /\ log[2] = <<"w", _VL6180X_REG_SYSTEM_INTERRUPT_CONFIG, x>>
            /\ x \in 0..255
            /\ (x \div 8) % 8 = 4
            /\ x % 8 = c % 8
            /\ x \div 64 = c \div 64

\* The byte read first is the byte the register held when read_lux started.
C20_ReadsHeld ==
    (op' = "read_lux" /\ log = <<>> /\ Len(log') = 1) =>
        log'[1] = <<"r", _VL6180X_REG_SYSTEM_INTERRUPT_CONFIG,
                    regs[_VL6180X_REG_SYSTEM_INTERRUPT_CONFIG]>>

C20_InterruptConfig == []C20_WrittenBack /\ [][C20_ReadsHeld]_vars

C20_Witness ==
    /\ Returned("read_lux")
    /\ log[1] = <<"r", 20, 255>>
    /\ log[2] = <<"w", 20, 231>>

(***************************************************************************)
(* C15: for every gain argument greater than the code of ALS_GAIN_40       *)
(* (0x07), read_lux writes 0x47 to the analog-gain register 0x03F and      *)
(* converts with the 40x multiplier; for every gain code g in 0..7 it      *)
(* writes 0x40 | g; the written byte always lies in 0x40..0x47.            *)
(***************************************************************************)
C15_GainWrites ==
    { k \in 1..Len(log) :
        IsWrite(log[k]) /\ log[k][2] = _VL6180X_REG_SYSALS_ANALOGUE_GAIN }

C15_GainClamped ==
    (op = "read_lux") =>
        /\ \A k \in C15_GainWrites :
              /\ log[k][3] \in 64..71
              /\ (arg > 7 => log[k][3] = 71)
              /\ (arg \in 0..7 => log[k][3] = 64 + arg)
        /\ Returned("read_lux") =>
              /\ Cardinality(C15_GainWrites) = 1
              /\ arg > 7 =>
                    /\ rv.k = "float"
                    /\ rv.v[1] * 4000 = log[Len(log) - 1][3] * 32 * rv.v[2]

C15_Witness ==
    /\ Returned("read_lux")
    /\ arg = 255
    /\ log[5] = <<"w", 63, 71>>
    /\ log[Len(log) - 1] = <<"r", 80, 1000>>
    /\ rv = RvFloat(<<8, 1>>)

(***************************************************************************)
(* C16: read_lux returns raw * 0.32 / multiplier for the 16-bit count raw  *)
(* read from register 0x050, the multiplier being that of the clamped gain *)
(* code: 1, 1.25, 1.67, 2.5, 5, 10, 20, 40 for ALS_GAIN_1, _1_25, _1_67,   *)
(* _2_5, _5, _10, _20, _40; raw = 1000 gives 320 with ALS_GAIN_1 and 32    *)
(* with ALS_GAIN_10; the result is never negative.                         *)
(***************************************************************************)
\* The multiplier of a gain code, in hundredths.
C16_Hundredths(g) ==
    CASE g = ALS_GAIN_1 -> 100
      [] g = ALS_GAIN_1_25 -> 125
      [] g = ALS_GAIN_1_67 -> 167
      [] g = ALS_GAIN_2_5 -> 250
      [] g = ALS_GAIN_5 -> 500
      [] g = ALS_GAIN_10 -> 1000
      [] g = ALS_GAIN_20 -> 2000
      [] g = ALS_GAIN_40 -> 4000

C16_LuxValue ==
    Returned("read_lux") =>
        LET raw == log[Len(log) - 1][3]
            g == IF arg > 7 THEN 7 ELSE arg
        IN  /\ log[Len(log) - 1] = <<"r", _VL6180X_REG_RESULT_ALS_VAL, raw>>
            /\ raw \in 0..65535
            /\ rv.k = "float"
            /\ rv.v[2] > 0
            /\ rv.v[1] >= 0
            /\ rv.v[1] * C16_Hundredths(g) = raw * 32 * rv.v[2]
            /\ (raw = 1000 /\ g = ALS_GAIN_1 => rv.v = <<320, 1>>)
            /\ (raw = 1000 /\ g = ALS_GAIN_10 => rv.v = <<32, 1>>)

C16_Witness ==
    /\ Returned("read_lux")
    /\ arg = ALS_GAIN_20
    /\ log[Len(log) - 1] = <<"r", 80, 65535>>
    /\ rv = RvFloat(<<26214, 25>>)

(***************************************************************************)
(* C19: read_lux performs its steps in this order: write interrupt-config  *)
(* (after reading it), write the integration period (high byte 0, then low *)
(* byte 100), write the gain register, write 0x1 to ALS-start 0x038, poll  *)
(* interrupt-status until the field at bits 3..5 equals exactly 4, read    *)
(* the 16-bit ALS value, write 0x07 to interrupt-clear.  The ALS value is  *)
(* never read before the field has been observed equal to 4, the interrupt *)
(* clear never issued before the ALS value has been read.                  *)
(***************************************************************************)
\* The step of read_lux that a transaction is, 0 if none.
C19_Step(e) ==
    CASE e[1] = "r" /\ e[2] = 20 -> 1
      [] e[1] = "w" /\ e[2] = 20 -> 2
      [] e = <<"w", 64, 0>> -> 3
      [] e = <<"w", 65, 100>> -> 4
      [] e[1] = "w" /\ e[2] = 63 -> 5
      [] e = <<"w", 56, 1>> -> 6
      [] e[1] = "r" /\ e[2] = 79 /\ (e[3] \div 8) % 8 # 4 -> 7
      [] e[1] = "r" /\ e[2] = 79 /\ (e[3] \div 8) % 8 = 4 -> 8
      [] e[1] = "r" /\ e[2] = 80 -> 9
      [] e = <<"w", 21, 7>> -> 10
      [] OTHER -> 0

\* The steps that may follow a step.
C19_After(a) ==
    CASE a \in {1, 2, 3, 4, 5, 8, 9} -> {a + 1}
      [] a \in {6, 7} -> {7, 8}
      [] OTHER -> {}

C19_LuxOrder ==
    (op = "read_lux" /\ log # <<>>) =>
        /\ C19_Step(log[1]) = 1
        /\ \A k \in 1..(Len(log) - 1) :
              C19_Step(log[k + 1]) \in C19_After(C19_Step(log[k]))
        /\ \A k \in 1..Len(log) :
              /\ C19_Step(log[k]) = 9 => k > 1 /\ C19_Step(log[k - 1]) = 8
              /\ C19_Step(log[k]) = 10 =>
                    \E j \in 1..(k - 1) : C19_Step(log[j]) = 9
        /\ Returned("read_lux") => C19_Step(Last(log)) = 10

C19_Witness ==
    /\ Returned("read_lux")
    /\ Len(log) = 10
    /\ log[7] = <<"r", 79, 40>>
    /\ log[8] = <<"r", 79, 32>>
    /\ log[9] = <<"r", 80, 1000>>

(***************************************************************************)
(* C17: each register primitive (_write_8, _write_16, _read_8, _read_16)   *)
(* holds the bus for its whole transaction and releases it on every exit   *)
(* path, a transport failure included: with two users of the bus, no       *)
(* transfer of the other user occurs between a primitive's address write   *)
(* and its data read, and the lock is never left held once the primitive   *)
(* has returned or raised.                                                 *)
(***************************************************************************)
C17_Primitives == {"_write_8", "_write_16", "_read_8", "_read_16"}

\* From the first transfer to the unlock the driver is the holder.
C17_Holding ==
    (pc # <<>> /\ Head(pc) \in {"i2c_write", "i2c_readinto", "with_exit"})
        => lock = "driver"

\* A data read of the driver directly follows its address write.
C17_ReadFollowsAddress ==
    (op \in C17_Primitives) =>
        \A k \in 1..Len(log) :
            (log[k][1] = "readinto" /\ log[k][2] = "driver") =>
                /\ k > 1
                /\ log[k - 1] = <<"write", "driver",
                                  <<arg[1] \div 256, arg[1] % 256>> >>

\* Once the primitive has returned or raised, the driver holds no lock.
C17_Released == Idle => lock # "driver"

\* The other user transfers only while no primitive is inside its block.
C17_OtherOutside ==
    (Len(log') = Len(log) + 1 /\ Last(log')[2] = "other") =>
        (Idle \/ At("with_enter"))

C17_BusExclusive ==
    /\ [](C17_Holding /\ C17_ReadFollowsAddress /\ C17_Released)
    /\ [][C17_OtherOutside]_vars

C17_Witness ==
    /\ Idle
    /\ op = "_read_8"
    /\ exc = "OSError"
    /\ lock = "free"
    /\ log = << <<"write", "other", <<>> >>, <<"write", "driver", <<0, 77>> >> >>

====
